---- MODULE Spec2Model ----
(***************************************************************************)
(* Authorization core of the multi-tenant task manager: the guard chain    *)
(* (JwtAuthGuard, TaskOrgGuard, OrgRolesGuard), the task, audit-log and    *)
(* invitation routes behind it, and the two flows that write memberships   *)
(* (organization creation, invitation acceptance).                         *)
(*                                                                         *)
(* Every HTTP request is one action: the guards of the route run in the    *)
(* order of its @UseGuards list, then the controller method and the        *)
(* service method it calls.  The answer is recorded in `last`.             *)
(***************************************************************************)
EXTENDS Integers, Sequences, FiniteSets, TLC

\* ------------------------------------------------------------------ bounds
MaxOrgs == 2
MaxTasks == 1
MaxInvitations == 2
MaxWorkers == 2                \* requests that can be in flight at once

Users == {"u1", "u2"}          \* user ids; a user's email is written as the id
Anonymous == "anon"            \* a request without a verifiable bearer token
Tokens == Users \cup {Anonymous}
Newcomer == "u3"               \* an email address without an account
OrgIds == 1..MaxOrgs
TaskIds == 1..MaxTasks
InvIds == 1..MaxInvitations
Workers == 1..MaxWorkers
MissingId == 0                 \* an id that matches no row
NoId == -1                     \* an id field absent from the request (undefined)
Undefined == "undefined"       \* a field absent from the request / payload
Null == "null"

\* ------------------------------------------------------------------- enums
OWNER == "OWNER"
ADMIN == "ADMIN"
VIEWER == "VIEWER"
Roles == {OWNER, ADMIN, VIEWER}

PENDING == "PENDING"
ACCEPTED == "ACCEPTED"
REVOKED == "REVOKED"
EXPIRED == "EXPIRED"

\* HTTP outcomes
Ok == 200
Created == 201
BadRequest == 400
Unauthorized == 401
Forbidden == 403
NotFound == 404
Conflict == 409
NoContent == 204
InternalServerError == 500     \* an exception that is no HttpException

VARIABLES
    users,          \* registered user ids (users table)
    organizations,  \* sequence of organization rows, id = index
    memberships,    \* set of user_organizations rows [id, userId, organizationId, role]
    tasks,          \* sequence of task rows, id = index
    invitations,    \* sequence of invitation rows, id = index
    last,           \* the request handled last and its answer
    inflight        \* per worker: the request it is in the middle of handling

vars == <<users, organizations, memberships, tasks, invitations, last, inflight>>
db == <<users, organizations, memberships, tasks, invitations>>

\* --------------------------------------------------------- role hierarchy
\* slip: ADMIN and VIEWER entered in the table the wrong way round
rank_swapped(role) ==
    CASE role = OWNER -> 3
      [] role = ADMIN -> 1
      [] role = VIEWER -> 2
      [] OTHER -> 0

\* slip: the hierarchy numbered from the top, OWNER (1) < ADMIN (2) < VIEWER (3)
rank_inverted(role) ==
    CASE role = OWNER -> 1
      [] role = ADMIN -> 2
      [] role = VIEWER -> 3
      [] OTHER -> 0

rank(role) ==
    CASE role = OWNER -> 3
      [] role = ADMIN -> 2
      [] role = VIEWER -> 1
      [] OTHER -> 0

\* satisfies(callerRole, requiredRole): rank comparison with inheritance
satisfies(callerRole, requiredRole) == rank(callerRole) >= rank(requiredRole)

\* ------------------------------------------------------------- the stores
\* organizationRepository.create({ name, parentId })
NewOrganization(parentId) ==
    [ parentId |-> parentId, name |-> "N0", removed |-> FALSE ]

\* a row of organizations with this id is stored (ids are never used twice:
\* a removed row keeps its place in the sequence)
OrgExists(id) == id \in 1..Len(organizations) /\ ~organizations[id].removed

\* TasksService.findByIdWithDeleted finds the row, soft-deleted or not
\* slip: findOne without withDeleted: true
findByIdWithDeleted_liveOnly(id) ==
    /\ id \in 1..Len(tasks)
    /\ OrgExists(tasks[id].organizationId)
    /\ ~tasks[id].deleted

\* TasksService.findByIdWithDeleted
findByIdWithDeleted(id) ==
    \* onDelete: 'CASCADE': the tasks of a removed organization are gone
    id \in 1..Len(tasks) /\ OrgExists(tasks[id].organizationId)

\* slip: the handlers' lookup finds soft-deleted rows too
findById_withDeleted(id) == id \in 1..Len(tasks)

\* TasksService.findById: TypeORM findOne leaves soft-deleted rows out
findById(id) == id \in 1..Len(tasks) /\ ~tasks[id].deleted

\* slip: the lookup filters by userId only
getUserOrganizationRole_anyOrg(userId, organizationId) ==
    LET rows == {m \in memberships : m.userId = userId}
    IN  IF rows = {} THEN Null ELSE (CHOOSE m \in rows : TRUE).role

\* userOrgRepository.create({ userId, organizationId, role }): a new row; its
\* primary key is fresh among the rows of the same user and organization
NewMembership(userId, organizationId, role) ==
    [ id |-> 1 + Cardinality({m \in memberships : m.userId = userId
                                /\ m.organizationId = organizationId}),
      userId |-> userId, organizationId |-> organizationId, role |-> role ]

\* slip: the invitee is stored with the column default instead of the invited role
GrantedRole_default(invitationRole) == VIEWER

\* InvitationsService.acceptInvitation: role: invitation.role
GrantedRole(invitationRole) == invitationRole

\* AuthService.getUserOrganizationRole: membership?.role ?? null
getUserOrganizationRole(userId, organizationId) ==
    LET rows == {m \in memberships :
                    m.userId = userId /\ m.organizationId = organizationId}
    IN  IF rows = {} THEN Null ELSE (CHOOSE m \in rows : TRUE).role

\* -------------------------------------------------------- request context
\* the repository call of a guard that rejects (store error or timeout)
\* while this request is handled
NoFault == "none"
Lookups == {"task", "membership"}

\* The request object as the guards see and mutate it.
NewRequest(route, token, id, paramsOrg, bodyOrg, queryOrg) ==
    [ route        |-> route,
      token        |-> token,
      user         |-> Undefined,      \* request.user
      id           |-> id,             \* request.params.id
      paramsOrg    |-> paramsOrg,      \* request.params.organizationId
      bodyOrg      |-> bodyOrg,        \* request.body.organizationId
      queryOrg     |-> queryOrg,       \* request.query.organizationId
      sentOrg      |-> IF paramsOrg # NoId THEN paramsOrg   \* the organization id
                       ELSE IF bodyOrg # NoId THEN bodyOrg  \* the client put in
                       ELSE queryOrg,                       \* the request
      organizationId |-> NoId,         \* request.organizationId
      userOrgRole  |-> Undefined,      \* request.userOrgRole
      memberRole   |-> Undefined,      \* what the membership lookup returned
      checkedOrg   |-> NoId,           \* organization of the membership lookup
      status       |-> 0,              \* 0 while the chain is running
      stages       |-> <<>>,           \* guards that ran, in order
      fault        |-> NoFault ]       \* the lookup that fails, if any

\* the same request, handled while one lookup of the store fails
NewFaultyRequest(fault, route, token, id, paramsOrg, bodyOrg, queryOrg) ==
    [NewRequest(route, token, id, paramsOrg, bodyOrg, queryOrg)
        EXCEPT !.fault = fault]

Fail(req, stage, code) ==
    [req EXCEPT !.status = code, !.stages = Append(@, stage)]

\* JwtAuthGuard + JwtStrategy.validate: the token verifies and its user exists
JwtAuthGuard(req) ==
    IF req.token \in users
    THEN [req EXCEPT !.user = req.token, !.stages = Append(@, "JwtAuthGuard")]
    ELSE Fail(req, "JwtAuthGuard", Unauthorized)

\* slip: request.body.organizationId = request.body.organizationId || task.organizationId
TaskOrgGuard_keepsBody(req) ==
    IF req.id = NoId
    THEN [req EXCEPT !.stages = Append(@, "TaskOrgGuard")]
    ELSE IF ~(req.id \in 1..Len(tasks))
    THEN Fail(req, "TaskOrgGuard", NotFound)
    ELSE [req EXCEPT !.bodyOrg = IF req.bodyOrg # NoId THEN req.bodyOrg
                                 ELSE tasks[req.id].organizationId,
                     !.stages = Append(@, "TaskOrgGuard")]

\* slip: try { task = await ... } catch { return true }
TaskOrgGuard_swallows(req) ==
    IF req.id = NoId \/ req.fault = "task"
    THEN [req EXCEPT !.stages = Append(@, "TaskOrgGuard")]
    ELSE IF ~findByIdWithDeleted(req.id)
    THEN Fail(req, "TaskOrgGuard", NotFound)
    ELSE [req EXCEPT !.bodyOrg = tasks[req.id].organizationId,
                     !.stages = Append(@, "TaskOrgGuard")]

\* TaskOrgGuard.canActivate
TaskOrgGuard(req) ==
    IF req.id = NoId
    THEN [req EXCEPT !.stages = Append(@, "TaskOrgGuard")]
    ELSE IF req.fault = "task"
    \* await findByIdWithDeleted rejects: nothing catches it
    THEN Fail(req, "TaskOrgGuard", InternalServerError)
    ELSE IF ~findByIdWithDeleted(req.id)
    THEN Fail(req, "TaskOrgGuard", NotFound)
    ELSE [req EXCEPT !.bodyOrg = tasks[req.id].organizationId,
                     !.stages = Append(@, "TaskOrgGuard")]

\* organization id of the request: route parameter, then body, then query
ExtractOrganizationId(req) ==
    IF req.paramsOrg # NoId THEN req.paramsOrg
    ELSE IF req.bodyOrg # NoId THEN req.bodyOrg
    ELSE req.queryOrg

\* @OrgRoles(R): one role is a minimum rank, several roles are an explicit set
RoleAccepted(role, required) ==
    IF Cardinality(required) = 1
    THEN \E r \in required : satisfies(role, r)
    ELSE role \in required

\* OrgRolesGuard.canActivate
OrgRolesGuard(req, required) ==
    LET org == ExtractOrganizationId(req)
        role == getUserOrganizationRole(req.user, org)
    IN  IF required = {} \/ org = NoId
        THEN [req EXCEPT !.stages = Append(@, "OrgRolesGuard")]
        ELSE IF req.fault = "membership"
        \* getUserOrganizationRole rejects: the guard fails closed
        THEN [Fail(req, "OrgRolesGuard", InternalServerError)
                 EXCEPT !.checkedOrg = org]
        ELSE IF role = Null
        THEN [Fail(req, "OrgRolesGuard", Forbidden)
                 EXCEPT !.checkedOrg = org, !.memberRole = Null]
        ELSE IF ~RoleAccepted(role, required)
        THEN [Fail(req, "OrgRolesGuard", Forbidden)
                 EXCEPT !.checkedOrg = org, !.memberRole = role]
        ELSE [req EXCEPT !.organizationId = org,
                         !.userOrgRole = role,
                         !.memberRole = role,
                         !.checkedOrg = org,
                         !.stages = Append(@, "OrgRolesGuard")]

RunGuard(name, req, required) ==
    CASE name = "JwtAuthGuard" -> JwtAuthGuard(req)
      [] name = "TaskOrgGuard" -> TaskOrgGuard(req)
      [] name = "OrgRolesGuard" -> OrgRolesGuard(req, required)

\* @UseGuards(g1, g2, ...): guards run in order, the first rejection ends the request
RECURSIVE UseGuards(_, _, _)
UseGuards(guards, req, required) ==
    IF guards = <<>> \/ req.status # 0 THEN req
    ELSE UseGuards(Tail(guards), RunGuard(Head(guards), req, required), required)

\* ------------------------------------------------------ route declarations
JwtOnly == <<"JwtAuthGuard">>
JwtOrg == <<"JwtAuthGuard", "OrgRolesGuard">>
JwtTaskOrg == <<"JwtAuthGuard", "TaskOrgGuard", "OrgRolesGuard">>

\* @UseGuards / @OrgRoles of TasksController
TasksCreateRoles == {ADMIN}
TasksFindAllRoles == {VIEWER}
\* slip: OrgRolesGuard listed before TaskOrgGuard
TasksUpdateGuards_rolesFirst == <<"JwtAuthGuard", "OrgRolesGuard", "TaskOrgGuard">>
TasksUpdateGuards == JwtTaskOrg
TasksUpdateRoles == {VIEWER}
\* slip: TaskOrgGuard listed before JwtAuthGuard
TasksRemoveGuards_lookupFirst == <<"TaskOrgGuard", "JwtAuthGuard", "OrgRolesGuard">>
TasksRemoveGuards == JwtTaskOrg
\* slip: @OrgRoles(OrganizationRole.VIEWER) on DELETE /tasks/:id
TasksRemoveRoles_viewer == {VIEWER}
TasksRemoveRoles == {ADMIN}
TasksRestoreGuards == JwtTaskOrg
TasksRestoreRoles == {ADMIN}
TasksFindDeletedRoles == {ADMIN}
\* AuthController test routes
AdminTestRoles == {ADMIN}
OwnerTestRoles == {OWNER}
\* AuditController.findAll
AuditFindAllRoles == {OWNER, ADMIN}
\* InvitationsController
InvitationsCreateRoles == {OWNER, ADMIN}
InvitationsListRoles == {OWNER, ADMIN}
InvitationsRevokeGuards == JwtOnly
InvitationsResendGuards == JwtOnly

\* ------------------------------------------------------------- the answer
NoKeys == {}
Answer(req, status, ran, keys, reqRole, data, readOrg) ==
    [ route          |-> req.route,
      token          |-> req.token,
      status         |-> status,
      stages         |-> IF ran THEN Append(req.stages, "handler") ELSE req.stages,
      organizationId |-> req.organizationId,
      userOrgRole    |-> req.userOrgRole,
      memberRole     |-> req.memberRole,
      checkedOrg     |-> req.checkedOrg,
      id             |-> req.id,
      sentOrg        |-> req.sentOrg,
      keys           |-> keys,
      reqRole        |-> reqRole,
      data           |-> data,
      readOrg        |-> readOrg,
      fault          |-> req.fault ]

\* slip: the rejection is answered but the handler's write happens all the same
Rejected_handlerRuns(req) ==
    /\ last' = Answer(req, req.status, FALSE, NoKeys, Undefined, {}, NoId)
    /\ tasks' = [i \in 1..Len(tasks) |->
                    IF i = req.id THEN [tasks[i] EXCEPT !.deleted = TRUE]
                    ELSE tasks[i]]
    /\ UNCHANGED <<users, organizations, memberships, invitations, inflight>>

\* a guard rejected the request: no handler, no store write
Rejected(req) ==
    /\ last' = Answer(req, req.status, FALSE, NoKeys, Undefined, {}, NoId)
    /\ UNCHANGED <<db, inflight>>

NoRequest ==
    [ route |-> "none", token |-> Anonymous, status |-> 0, stages |-> <<>>,
      organizationId |-> NoId, userOrgRole |-> Undefined,
      memberRole |-> Undefined, checkedOrg |-> NoId, id |-> NoId,
      sentOrg |-> NoId, keys |-> NoKeys,
      reqRole |-> Undefined, data |-> {}, readOrg |-> NoId,
      fault |-> NoFault ]

\* a worker that handles no request
NoWork ==
    [ op |-> "none", pc |-> "idle", status |-> 0, user |-> Anonymous,
      org |-> NoId, id |-> NoId, role |-> Undefined, email |-> Undefined ]

Init ==
    /\ inflight = [w \in Workers |-> NoWork]
    /\ users = {}
    /\ organizations = <<>>
    /\ memberships = {}
    /\ tasks = <<>>
    /\ invitations = <<>>
    /\ last = NoRequest

\* ------------------------------------------------------------------- auth
\* POST /auth/register: AuthService.register
Register(email) ==
    IF email \in users
    THEN /\ last' = [NoRequest EXCEPT !.route = "register", !.status = Conflict,
                                       !.stages = <<"handler">>]
         /\ UNCHANGED <<db, inflight>>
    ELSE /\ users' = users \cup {email}
         /\ last' = [NoRequest EXCEPT !.route = "register", !.token = email,
                                       !.status = Created,
                                       !.stages = <<"handler">>]
         /\ UNCHANGED <<organizations, memberships, tasks, invitations, inflight>>

\* GET /auth/org/:organizationId/admin-test
AdminTest(token, org) ==
    LET req == UseGuards(JwtOrg,
                   NewRequest("adminTest", token, NoId, org, NoId, NoId),
                   AdminTestRoles)
    IN  IF req.status # 0 THEN Rejected(req)
        ELSE /\ last' = Answer(req, Ok, TRUE, NoKeys, Undefined, {}, NoId)
             /\ UNCHANGED <<db, inflight>>

\* GET /auth/org/:organizationId/owner-test
OwnerTest(token, org) ==
    LET req == UseGuards(JwtOrg,
                   NewRequest("ownerTest", token, NoId, org, NoId, NoId),
                   OwnerTestRoles)
    IN  IF req.status # 0 THEN Rejected(req)
        ELSE /\ last' = Answer(req, Ok, TRUE, NoKeys, Undefined, {}, NoId)
             /\ UNCHANGED <<db, inflight>>

\* ---------------------------------------------------------- organizations
\* POST /organizations: OrganizationsController.create + OrganizationsService.create
\* parentId = NoId when the dto has none
\* OrganizationsService.create, the checks on dto.parentId: the status of the
\* exception thrown, 0 when the creation goes on
ParentRefusal(userId, parentId) ==
    IF parentId = NoId THEN 0
    ELSE IF ~OrgExists(parentId) THEN NotFound
    ELSE IF getUserOrganizationRole(userId, parentId) \notin {OWNER, ADMIN}
    THEN Forbidden
    ELSE 0

CreateOrganization(token, parentId) ==
    LET req == UseGuards(JwtOnly,
                   NewRequest("createOrganization", token, NoId, NoId, parentId, NoId),
                   {})
        newId == Len(organizations) + 1
    IN  IF req.status # 0 THEN Rejected(req)
        ELSE IF ParentRefusal(req.user, parentId) # 0
        THEN /\ last' = Answer(req, ParentRefusal(req.user, parentId), TRUE,
                                NoKeys, Undefined, {}, NoId)
             /\ UNCHANGED <<db, inflight>>
        ELSE /\ Len(organizations) < MaxOrgs
             /\ organizations' = Append(organizations, NewOrganization(parentId))
             /\ memberships' = memberships \cup
                    {NewMembership(req.user, newId, OWNER)}
             /\ last' = [Answer(req, Created, TRUE, NoKeys, Undefined, {}, NoId)
                            EXCEPT !.id = newId]
             /\ UNCHANGED <<users, tasks, invitations, inflight>>

\* ------------------------------------------------------------------ tasks
TaskFields == {"title", "description", "assigneeId", "status", "priority", "category"}

\* an UpdateTaskDto: every field is a value or undefined
Dto(title, status) ==
    [ title |-> title, description |-> Undefined, assigneeId |-> Undefined,
      status |-> status, priority |-> Undefined, category |-> Undefined ]

\* the update payloads tried
UpdateDtos ==
    { Dto(Undefined, Undefined),
      Dto(Undefined, "DONE"),
      Dto("T1", Undefined),
      Dto("T1", "DONE") }

\* POST /tasks?organizationId=queryOrg with body.organizationId = org:
\* TasksController.create + TasksService.create, which take the organization
\* from the body
CreateTaskSentWhen(fault, token, org, queryOrg) ==
    LET req == UseGuards(JwtOrg,
                   NewFaultyRequest(fault, "createTask", token,
                                    NoId, NoId, org, queryOrg),
                   TasksCreateRoles)
        task == [ organizationId |-> org,
                  title       |-> "T0",
                  description |-> Null,
                  assigneeId  |-> req.user,
                  status      |-> "TODO",
                  priority    |-> "MEDIUM",
                  category    |-> "GENERAL",
                  deleted     |-> FALSE ]
    IN  IF req.status # 0 THEN Rejected(req)
        ELSE IF ~OrgExists(org)
        THEN /\ last' = Answer(req, NotFound, TRUE, NoKeys, Undefined, {}, org)
             /\ UNCHANGED <<db, inflight>>
        ELSE /\ Len(tasks) < MaxTasks
             /\ tasks' = Append(tasks, task)
             /\ last' = [Answer(req, Created, TRUE, NoKeys, Undefined, {}, org)
                            EXCEPT !.id = Len(tasks) + 1]
             /\ UNCHANGED <<users, organizations, memberships, invitations, inflight>>

\* POST /tasks with every lookup answering
CreateTaskSent(token, org, queryOrg) == CreateTaskSentWhen(NoFault, token, org, queryOrg)

\* POST /tasks with the organization in the body alone
CreateTask(token, org) == CreateTaskSent(token, org, NoId)

\* TasksService.findByOrganization: the live rows of one organization
findByOrganization(organizationId) ==
    {i \in 1..Len(tasks) :
        tasks[i].organizationId = organizationId /\ ~tasks[i].deleted}

\* TasksService.findDeleted: the soft-deleted rows of one organization
findDeleted(organizationId) ==
    {i \in 1..Len(tasks) :
        tasks[i].organizationId = organizationId /\ tasks[i].deleted}

\* GET /tasks?organizationId=: TasksController.findAll
ListTasksSentWhen(fault, token, bodyOrg, org) ==
    LET req == UseGuards(JwtOrg,
                   NewFaultyRequest(fault, "listTasks", token,
                                    NoId, NoId, bodyOrg, org),
                   TasksFindAllRoles)
    IN  IF req.status # 0 THEN Rejected(req)
        ELSE /\ last' = Answer(req, Ok, TRUE, NoKeys, Undefined,
                                findByOrganization(req.queryOrg), req.queryOrg)
             /\ UNCHANGED <<db, inflight>>

\* GET /tasks with every lookup answering
ListTasksSent(token, bodyOrg, org) == ListTasksSentWhen(NoFault, token, bodyOrg, org)

\* the same request without a body
ListTasks(token, org) == ListTasksSent(token, NoId, org)

\* GET /tasks/deleted?organizationId=: TasksController.findDeleted
ListDeletedTasksSent(token, bodyOrg, org) ==
    LET req == UseGuards(JwtOrg,
                   NewRequest("listDeletedTasks", token, NoId, NoId, bodyOrg, org),
                   TasksFindDeletedRoles)
    IN  IF req.status # 0 THEN Rejected(req)
        ELSE /\ last' = Answer(req, Ok, TRUE, NoKeys, Undefined,
                                findDeleted(req.queryOrg), req.queryOrg)
             /\ UNCHANGED <<db, inflight>>

\* the same request without a body
ListDeletedTasks(token, org) == ListDeletedTasksSent(token, NoId, org)

\* Object.keys(updateTaskDto) with a value other than undefined; the body
\* carries organizationId once TaskOrgGuard has run
PresentKeys(dto, req) ==
    {k \in TaskFields : dto[k] # Undefined}
        \cup (IF req.bodyOrg # NoId THEN {"organizationId"} ELSE {})

\* slip: the guard-injected organizationId is counted as user input
ViewerFieldViolation_noSystemKeys(dto, req) ==
    LET allowedKeys == {"status"}
        updateKeys == PresentKeys(dto, req)
    IN  req.userOrgRole = VIEWER /\ \E k \in updateKeys : k \notin allowedKeys

\* slip: updateKeys.every(...) in place of updateKeys.some(...)
ViewerFieldViolation_every(dto, req) ==
    LET allowedKeys == {"status"}
        systemKeys == {"organizationId"}
        updateKeys == PresentKeys(dto, req) \ systemKeys
    IN  req.userOrgRole = VIEWER /\ updateKeys # {}
            /\ \A k \in updateKeys : k \notin allowedKeys

\* TasksController.update, the VIEWER branch: TRUE when the payload is refused
ViewerFieldViolation(dto, req) ==
    LET allowedKeys == {"status"}
        systemKeys == {"organizationId"}
        updateKeys == PresentKeys(dto, req) \ systemKeys
    IN  req.userOrgRole = VIEWER /\ \E k \in updateKeys : k \notin allowedKeys

\* TasksService.update: copy every field of the dto that is not undefined
ApplyUpdate(task, dto) ==
    [ organizationId |-> task.organizationId,
      title       |-> IF dto.title # Undefined THEN dto.title ELSE task.title,
      description |-> IF dto.description # Undefined THEN dto.description
                                                     ELSE task.description,
      assigneeId  |-> IF dto.assigneeId # Undefined THEN dto.assigneeId
                                                    ELSE task.assigneeId,
      status      |-> IF dto.status # Undefined THEN dto.status ELSE task.status,
      priority    |-> IF dto.priority # Undefined THEN dto.priority
                                                  ELSE task.priority,
      category    |-> IF dto.category # Undefined THEN dto.category
                                                  ELSE task.category,
      deleted     |-> task.deleted ]

\* PUT /tasks/:id: TasksController.update + TasksService.update
UpdateTaskWhen(fault, token, id, sentOrg, dto) ==
    LET req == UseGuards(TasksUpdateGuards,
                   NewFaultyRequest(fault, "updateTask", token,
                                    id, NoId, sentOrg, NoId),
                   TasksUpdateRoles)
        keys == {k \in TaskFields : dto[k] # Undefined}
    IN  IF req.status # 0
        THEN /\ last' = Answer(req, req.status, FALSE, keys, Undefined, {}, NoId)
             /\ UNCHANGED <<db, inflight>>
        ELSE IF ViewerFieldViolation(dto, req)
        THEN /\ last' = Answer(req, Forbidden, TRUE, keys, Undefined, {}, NoId)
             /\ UNCHANGED <<db, inflight>>
        ELSE IF ~findById(id)
        THEN /\ last' = Answer(req, NotFound, TRUE, keys, Undefined, {}, NoId)
             /\ UNCHANGED <<db, inflight>>
        ELSE /\ tasks' = [tasks EXCEPT ![id] = ApplyUpdate(@, dto)]
             /\ last' = Answer(req, Ok, TRUE, keys, Undefined, {id},
                                tasks[id].organizationId)
             /\ UNCHANGED <<users, organizations, memberships, invitations, inflight>>

\* PUT /tasks/:id with every lookup answering
UpdateTask(token, id, sentOrg, dto) == UpdateTaskWhen(NoFault, token, id, sentOrg, dto)

\* DELETE /tasks/:id: TasksController.remove + TasksService.delete
DeleteTaskWhen(fault, token, id, sentOrg) ==
    LET req == UseGuards(TasksRemoveGuards,
                   NewFaultyRequest(fault, "deleteTask", token,
                                    id, NoId, sentOrg, NoId),
                   TasksRemoveRoles)
    IN  IF req.status # 0 THEN Rejected(req)
        ELSE IF ~findById(id)
        THEN /\ last' = Answer(req, NotFound, TRUE, NoKeys, Undefined, {}, NoId)
             /\ UNCHANGED <<db, inflight>>
        ELSE /\ tasks' = [tasks EXCEPT ![id].deleted = TRUE]
             /\ last' = Answer(req, Ok, TRUE, NoKeys, Undefined, {}, NoId)
             /\ UNCHANGED <<users, organizations, memberships, invitations, inflight>>

\* DELETE /tasks/:id with every lookup answering
DeleteTask(token, id, sentOrg) == DeleteTaskWhen(NoFault, token, id, sentOrg)

\* PATCH /tasks/:id/restore: TasksController.restore + TasksService.restoreTask
RestoreTaskWhen(fault, token, id, sentOrg) ==
    LET req == UseGuards(TasksRestoreGuards,
                   NewFaultyRequest(fault, "restoreTask", token,
                                    id, NoId, sentOrg, NoId),
                   TasksRestoreRoles)
    IN  IF req.status # 0 THEN Rejected(req)
        ELSE IF ~findByIdWithDeleted(id) \/ ~tasks[id].deleted
        THEN /\ last' = Answer(req, NotFound, TRUE, NoKeys, Undefined, {}, NoId)
             /\ UNCHANGED <<db, inflight>>
        ELSE /\ tasks' = [tasks EXCEPT ![id].deleted = FALSE]
             /\ last' = Answer(req, Ok, TRUE, NoKeys, Undefined, {id},
                                tasks[id].organizationId)
             /\ UNCHANGED <<users, organizations, memberships, invitations, inflight>>

\* PATCH /tasks/:id/restore with every lookup answering
RestoreTask(token, id, sentOrg) == RestoreTaskWhen(NoFault, token, id, sentOrg)

\* ------------------------------------------------------------------ audit
\* GET /audit-log?organizationId=: AuditController.findAll + AuditService.findByOrg
ReadAuditLogSent(token, bodyOrg, org) ==
    LET req == UseGuards(JwtOrg,
                   NewRequest("readAuditLog", token, NoId, NoId, bodyOrg, org),
                   AuditFindAllRoles)
    IN  IF req.status # 0 THEN Rejected(req)
        ELSE /\ last' = Answer(req, Ok, TRUE, NoKeys, Undefined, {}, req.queryOrg)
             /\ UNCHANGED <<db, inflight>>

\* the same request without a body
ReadAuditLog(token, org) == ReadAuditLogSent(token, NoId, org)

\* ------------------------------------------------------------ invitations
InvitationExists(id) ==
    \* onDelete: 'CASCADE': the invitations of a removed organization are gone
    id \in 1..Len(invitations) /\ OrgExists(invitations[id].organizationId)

\* InvitationsService.createInvitation, first check: only OWNER and ADMIN invite
canInvite(inviterRole) == inviterRole \in {OWNER, ADMIN}

\* slip: the ADMIN-cannot-invite-OWNER check left out
canGrantRole_always(inviterRole, requestedRole) == TRUE

\* InvitationsService.createInvitation, second check: ADMIN cannot invite OWNER
canGrantRole(inviterRole, requestedRole) ==
    ~(inviterRole = ADMIN /\ requestedRole = OWNER)

\* a PENDING invitation for this email and organization is already stored
PendingInvitationExists(email, org) ==
    \E i \in 1..Len(invitations) :
        /\ invitations[i].email = email
        /\ invitations[i].organizationId = org
        /\ invitations[i].status = PENDING

\* POST /invitations: InvitationsController.createInvitation +
\* InvitationsService.createInvitation
CreateInvitationSent(token, org, queryOrg, email, role) ==
    LET req == UseGuards(JwtOrg,
                   NewRequest("createInvitation", token, NoId, NoId, org, queryOrg),
                   InvitationsCreateRoles)
        inviterRole == req.userOrgRole
        invitation == [ email          |-> email,
                        role           |-> role,
                        status         |-> PENDING,
                        organizationId |-> org,
                        invitedById    |-> req.user,
                        pastExpiry     |-> FALSE ]
    IN  IF req.status # 0
        THEN /\ last' = Answer(req, req.status, FALSE, NoKeys, role, {}, NoId)
             /\ UNCHANGED <<db, inflight>>
        ELSE IF ~canInvite(inviterRole) \/ ~canGrantRole(inviterRole, role)
        THEN /\ last' = Answer(req, Forbidden, TRUE, NoKeys, role, {}, org)
             /\ UNCHANGED <<db, inflight>>
        ELSE IF ~OrgExists(org)
        THEN /\ last' = Answer(req, NotFound, TRUE, NoKeys, role, {}, org)
             /\ UNCHANGED <<db, inflight>>
        ELSE IF \/ (email \in users /\ getUserOrganizationRole(email, org) # Null)
                \/ PendingInvitationExists(email, org)
        THEN /\ last' = Answer(req, Conflict, TRUE, NoKeys, role, {}, org)
             /\ UNCHANGED <<db, inflight>>
        ELSE /\ Len(invitations) < MaxInvitations
             /\ invitations' = Append(invitations, invitation)
             /\ last' = [Answer(req, Created, TRUE, NoKeys, role, {}, org)
                            EXCEPT !.id = Len(invitations) + 1]
             /\ UNCHANGED <<users, organizations, memberships, tasks, inflight>>

\* POST /invitations with the organization in the body alone
CreateInvitation(token, org, email, role) ==
    CreateInvitationSent(token, org, NoId, email, role)

\* GET /invitations/organization/:organizationId
ListInvitationsSent(token, org, bodyOrg, queryOrg) ==
    LET req == UseGuards(JwtOrg,
                   NewRequest("listInvitations", token, NoId, org, bodyOrg, queryOrg),
                   InvitationsListRoles)
    IN  IF req.status # 0 THEN Rejected(req)
        ELSE /\ last' = Answer(req, Ok, TRUE, NoKeys, Undefined, {}, req.paramsOrg)
             /\ UNCHANGED <<db, inflight>>

\* the same request with the route parameter alone
ListInvitations(token, org) == ListInvitationsSent(token, org, NoId, NoId)

\* the clock passes the expiresAt of a stored invitation
ExpiryPasses(id) ==
    /\ InvitationExists(id)
    /\ ~invitations[id].pastExpiry
    /\ invitations' = [invitations EXCEPT ![id].pastExpiry = TRUE]
    /\ UNCHANGED <<users, organizations, memberships, tasks, last, inflight>>

\* POST /invitations/accept: InvitationsService.acceptInvitation; the token of
\* invitation id, or a token that matches no invitation (MissingId)
\* slip: the expiry test left out
isExpired_never(invitation) == FALSE

\* new Date() > invitation.expiresAt
isExpired(invitation) == invitation.pastExpiry

\* slip: the existing membership takes the invitation's role
AddUnlessMember_overwrites(userId, organizationId, role) ==
    {m \in memberships :
        ~(m.userId = userId /\ m.organizationId = organizationId)}
        \cup {[NewMembership(userId, organizationId, role) EXCEPT !.id = 1]}

\* if (!existingMembership) { userOrgRepository.save(membership) }
AddUnlessMember(userId, organizationId, role) ==
    IF getUserOrganizationRole(userId, organizationId) = Null
    THEN memberships \cup {NewMembership(userId, organizationId, role)}
    ELSE memberships

AcceptInvitation(id) ==
    LET req == NewRequest("acceptInvitation", Anonymous, id, NoId, NoId, NoId)
        inv == invitations[id]
    IN  IF ~InvitationExists(id)
        THEN /\ last' = Answer(req, NotFound, TRUE, NoKeys, Undefined, {}, NoId)
             /\ UNCHANGED <<db, inflight>>
        ELSE IF inv.status # PENDING
        THEN /\ last' = Answer(req, BadRequest, TRUE, NoKeys, inv.role, {}, NoId)
             /\ UNCHANGED <<db, inflight>>
        ELSE IF isExpired(inv)
        THEN /\ invitations' = [invitations EXCEPT ![id].status = EXPIRED]
             /\ last' = Answer(req, BadRequest, TRUE, NoKeys, inv.role, {}, NoId)
             /\ UNCHANGED <<users, organizations, memberships, tasks, inflight>>
        ELSE /\ users' = users \cup {inv.email}
             /\ memberships' = AddUnlessMember(inv.email, inv.organizationId,
                                                GrantedRole(inv.role))
             /\ invitations' = [invitations EXCEPT ![id].status = ACCEPTED]
             /\ last' = Answer(req, Ok, TRUE, NoKeys, inv.role, {}, NoId)
             /\ UNCHANGED <<organizations, tasks, inflight>>

\* slip: the role check left out
canRevokeOrResend_anyone(userRole) == TRUE

\* InvitationsService.revokeInvitation / resendInvitation: the role check
canRevokeOrResend(userRole) == userRole \in {OWNER, ADMIN}

\* DELETE /invitations/:id: InvitationsController.revokeInvitation +
\* InvitationsService.revokeInvitation
RevokeInvitation(token, id) ==
    LET req == UseGuards(InvitationsRevokeGuards,
                   NewRequest("revokeInvitation", token, id, NoId, NoId, NoId),
                   {})
    IN  IF req.status # 0 THEN Rejected(req)
        ELSE IF ~InvitationExists(id)
        THEN /\ last' = Answer(req, NotFound, TRUE, NoKeys, Undefined, {}, NoId)
             /\ UNCHANGED <<db, inflight>>
        ELSE IF invitations[id].status # PENDING
        THEN /\ last' = Answer(req, BadRequest, TRUE, NoKeys, Undefined, {}, NoId)
             /\ UNCHANGED <<db, inflight>>
        ELSE IF ~canRevokeOrResend(req.userOrgRole)
        THEN /\ last' = Answer(req, Forbidden, TRUE, NoKeys, Undefined, {}, NoId)
             /\ UNCHANGED <<db, inflight>>
        ELSE /\ invitations' = [invitations EXCEPT ![id].status = REVOKED]
             /\ last' = Answer(req, Ok, TRUE, NoKeys, Undefined, {}, NoId)
             /\ UNCHANGED <<users, organizations, memberships, tasks, inflight>>

\* POST /invitations/:id/resend: InvitationsController.resendInvitation +
\* InvitationsService.resendInvitation
ResendInvitation(token, id) ==
    LET req == UseGuards(InvitationsResendGuards,
                   NewRequest("resendInvitation", token, id, NoId, NoId, NoId),
                   {})
    IN  IF req.status # 0 THEN Rejected(req)
        ELSE IF ~InvitationExists(id)
        THEN /\ last' = Answer(req, NotFound, TRUE, NoKeys, Undefined, {}, NoId)
             /\ UNCHANGED <<db, inflight>>
        ELSE IF invitations[id].status = ACCEPTED
        THEN /\ last' = Answer(req, BadRequest, TRUE, NoKeys, Undefined, {}, NoId)
             /\ UNCHANGED <<db, inflight>>
        ELSE IF ~canRevokeOrResend(req.userOrgRole)
        THEN /\ last' = Answer(req, Forbidden, TRUE, NoKeys, Undefined, {}, NoId)
             /\ UNCHANGED <<db, inflight>>
        ELSE /\ invitations' = [invitations EXCEPT ![id].status = PENDING,
                                                   ![id].pastExpiry = FALSE]
             /\ last' = Answer(req, Ok, TRUE, NoKeys, Undefined, {}, NoId)
             /\ UNCHANGED <<users, organizations, memberships, tasks, inflight>>

\* ---------------------------------------------------------- organizations
\* GET /organizations/:id: OrganizationsService.findOne
\* OrganizationsService.findOne: NotFound for whoever has no membership
findOne(userId, id) ==
    IF getUserOrganizationRole(userId, id) = Null THEN NotFound ELSE Ok

FindOrganization(token, id) ==
    LET req == UseGuards(JwtOnly,
                   NewRequest("findOrganization", token, id, id, NoId, NoId), {})
    IN  IF req.status # 0 THEN Rejected(req)
        ELSE IF findOne(req.user, id) # Ok
        THEN /\ last' = Answer(req, findOne(req.user, id), TRUE, NoKeys,
                                Undefined, {}, NoId)
             /\ UNCHANGED <<db, inflight>>
        ELSE /\ last' = Answer(req, Ok, TRUE, NoKeys, Undefined, {}, id)
             /\ UNCHANGED <<db, inflight>>

\* PATCH /organizations/:id: OrganizationsService.update
UpdateOrganization(token, id, name) ==
    LET req == UseGuards(JwtOnly,
                   NewRequest("updateOrganization", token, id, id, NoId, NoId), {})
        role == getUserOrganizationRole(req.user, id)
    IN  IF req.status # 0 THEN Rejected(req)
        ELSE IF role = Null
        THEN /\ last' = Answer(req, NotFound, TRUE, NoKeys, Undefined, {}, NoId)
             /\ UNCHANGED <<db, inflight>>
        ELSE IF role \notin {OWNER, ADMIN}
        THEN /\ last' = Answer(req, Forbidden, TRUE, NoKeys, Undefined, {}, NoId)
             /\ UNCHANGED <<db, inflight>>
        ELSE /\ organizations' =
                    IF name # Undefined
                    THEN [organizations EXCEPT ![id].name = name]
                    ELSE organizations
             /\ last' = Answer(req, Ok, TRUE, NoKeys, Undefined, {}, id)
             /\ UNCHANGED <<users, memberships, tasks, invitations, inflight>>

\* the organizations whose parent is id
Children(id) ==
    {c \in 1..Len(organizations) : OrgExists(c) /\ organizations[c].parentId = id}

\* DELETE /organizations/:id: OrganizationsService.remove; the rows of
\* user_organizations, tasks and invitations that point to the organization
\* go with it (onDelete: 'CASCADE')
\* slip: the delete takes every membership row with it
CascadeMemberships_all(id) == {}

\* @ManyToOne(() => Organization, { onDelete: 'CASCADE' }) on the membership:
\* the rows left once the organization's own rows went with it
CascadeMemberships(id) == {m \in memberships : m.organizationId # id}

RemoveOrganization(token, id) ==
    LET req == UseGuards(JwtOnly,
                   NewRequest("removeOrganization", token, id, id, NoId, NoId), {})
        role == getUserOrganizationRole(req.user, id)
    IN  IF req.status # 0 THEN Rejected(req)
        ELSE IF role = Null
        THEN /\ last' = Answer(req, NotFound, TRUE, NoKeys, Undefined, {}, NoId)
             /\ UNCHANGED <<db, inflight>>
        ELSE IF role # OWNER
        THEN /\ last' = Answer(req, Forbidden, TRUE, NoKeys, Undefined, {}, NoId)
             /\ UNCHANGED <<db, inflight>>
        ELSE IF Children(id) # {}
        THEN /\ last' = Answer(req, BadRequest, TRUE, NoKeys, Undefined, {}, NoId)
             /\ UNCHANGED <<db, inflight>>
        ELSE /\ organizations' = [organizations EXCEPT ![id].removed = TRUE]
             /\ memberships' = CascadeMemberships(id)
             /\ last' = Answer(req, NoContent, TRUE, NoKeys, Undefined, {}, id)
             /\ UNCHANGED <<users, tasks, invitations, inflight>>

\* --------------------------------------------- requests running concurrently
\* Each await of a repository call is one step of the worker that handles the
\* request; the steps of different workers interleave.
Goto(w, pc) == inflight' = [inflight EXCEPT ![w].pc = pc]

\* the request of worker w ends with this status
Done(w, status) ==
    inflight' = [inflight EXCEPT ![w].pc = "done", ![w].status = status]

\* the response is sent and the worker is free again
Return(w) ==
    /\ inflight[w].pc = "done"
    /\ inflight' = [inflight EXCEPT ![w] = NoWork]
    /\ UNCHANGED <<db, last>>

\* the request dies between two awaits (the process stops, the connection to
\* the store is lost): what it has written stays, nothing more is written
Interrupt(w) ==
    /\ inflight[w].pc \notin {"idle", "done"}
    /\ Done(w, InternalServerError)
    /\ UNCHANGED <<db, last>>

\* slip: the unique constraint on (userId, organizationId) left out
uq_user_org_dropped(userId, organizationId) == TRUE

\* @Unique('uq_user_org', ['userId', 'organizationId']): TRUE when a row for
\* this pair can be inserted
uq_user_org(userId, organizationId) ==
    ~\E m \in memberships : m.userId = userId /\ m.organizationId = organizationId

\* slip: the creator is stored with role ADMIN
CreatorRole_admin == ADMIN

\* OrganizationsService.create: role: OrganizationRole.OWNER
CreatorRole == OWNER

\* OrganizationsService.create up to the first write: JwtAuthGuard and the
\* checks on the parent organization
BeginCreateOrganization(w, token, parentId) ==
    LET req == UseGuards(JwtOnly,
                   NewRequest("createOrganization", token, NoId, NoId, parentId, NoId),
                   {})
        work == [NoWork EXCEPT !.op = "createOrganization", !.user = token]
    IN  /\ inflight[w] = NoWork
        /\ inflight' = [inflight EXCEPT ![w] =
              IF req.status # 0
              THEN [work EXCEPT !.pc = "done", !.status = req.status]
              ELSE IF ParentRefusal(req.user, parentId) # 0
              THEN [work EXCEPT !.pc = "done",
                                !.status = ParentRefusal(req.user, parentId)]
              ELSE [work EXCEPT !.pc = "saveOrganization", !.org = parentId]]
        /\ UNCHANGED <<db, last>>

\* OrganizationsService.create: await organizationRepository.save(organization)
SaveOrganization(w) ==
    /\ inflight[w].op = "createOrganization"
    /\ inflight[w].pc = "saveOrganization"
    /\ Len(organizations) < MaxOrgs
    /\ organizations' = Append(organizations, NewOrganization(inflight[w].org))
    /\ inflight' = [inflight EXCEPT ![w].pc = "saveOwner",
                                    ![w].org = Len(organizations) + 1]
    /\ UNCHANGED <<users, memberships, tasks, invitations, last>>

\* OrganizationsService.create: await userOrgRepository.save(userOrg)
SaveOwner(w) ==
    LET me == inflight[w]
    IN  /\ me.op = "createOrganization"
        /\ me.pc = "saveOwner"
        /\ IF uq_user_org(me.user, me.org)
           THEN /\ memberships' = memberships \cup
                        {NewMembership(me.user, me.org, CreatorRole)}
                /\ Done(w, Created)
           ELSE /\ Done(w, InternalServerError)
                /\ UNCHANGED memberships
        /\ UNCHANGED <<users, organizations, tasks, invitations, last>>

\* InvitationsService.acceptInvitation: the invitation is read by its token
\* and checked
BeginAcceptInvitation(w, id) ==
    LET work == [NoWork EXCEPT !.op = "acceptInvitation", !.id = id]
        inv == invitations[id]
        read == [work EXCEPT !.user = inv.email, !.org = inv.organizationId,
                             !.role = inv.role]
    IN  /\ inflight[w] = NoWork
        /\ inflight' = [inflight EXCEPT ![w] =
              IF ~InvitationExists(id)
              THEN [work EXCEPT !.pc = "done", !.status = NotFound]
              ELSE IF inv.status # PENDING
              THEN [read EXCEPT !.pc = "done", !.status = BadRequest]
              ELSE IF isExpired(inv)
              THEN [read EXCEPT !.pc = "saveExpired"]
              ELSE [read EXCEPT !.pc = "findUser"]]
        /\ UNCHANGED <<db, last>>

\* acceptInvitation: invitation.status = EXPIRED; save; throw BadRequest
SaveExpired(w) ==
    /\ inflight[w].pc = "saveExpired"
    /\ invitations' = [invitations EXCEPT ![inflight[w].id].status = EXPIRED]
    /\ Done(w, BadRequest)
    /\ UNCHANGED <<users, organizations, memberships, tasks, last>>

\* acceptInvitation: userRepository.findOne({ where: { email } })
FindUser(w) ==
    /\ inflight[w].pc = "findUser"
    /\ Goto(w, IF inflight[w].user \in users THEN "findMembership" ELSE "saveUser")
    /\ UNCHANGED <<db, last>>

\* acceptInvitation: userRepository.save(user); users.email is unique
SaveUser(w) ==
    /\ inflight[w].pc = "saveUser"
    /\ IF inflight[w].user \in users
       THEN Done(w, InternalServerError) /\ UNCHANGED users
       ELSE users' = users \cup {inflight[w].user} /\ Goto(w, "findMembership")
    /\ UNCHANGED <<organizations, memberships, tasks, invitations, last>>

\* acceptInvitation: userOrgRepository.findOne({ where: { userId, organizationId } })
FindMembership(w) ==
    /\ inflight[w].pc = "findMembership"
    /\ Goto(w, IF getUserOrganizationRole(inflight[w].user, inflight[w].org) = Null
               THEN "saveMembership" ELSE "saveAccepted")
    /\ UNCHANGED <<db, last>>

\* acceptInvitation: userOrgRepository.save(membership)
SaveMembership(w) ==
    LET me == inflight[w]
    IN  /\ me.pc = "saveMembership"
        /\ IF uq_user_org(me.user, me.org)
           THEN /\ memberships' = memberships \cup
                        {NewMembership(me.user, me.org, GrantedRole(me.role))}
                /\ Goto(w, "saveAccepted")
           ELSE /\ Done(w, InternalServerError)
                /\ UNCHANGED memberships
        /\ UNCHANGED <<users, organizations, tasks, invitations, last>>

\* acceptInvitation: invitation.status = ACCEPTED; save
SaveAccepted(w) ==
    /\ inflight[w].pc = "saveAccepted"
    /\ invitations' = [invitations EXCEPT ![inflight[w].id].status = ACCEPTED]
    /\ Done(w, Ok)
    /\ UNCHANGED <<users, organizations, memberships, tasks, last>>

\* ------------------------------------------------------------ the machine
OrgInputs == OrgIds
TaskInputs == TaskIds \cup {MissingId}
InvInputs == InvIds \cup {MissingId}
BodyOrgInputs == OrgIds \cup {NoId}

\* no answer is outstanding: requests are handled one after the other
Idle == last = NoRequest

\* the answer reaches the client
Respond ==
    /\ ~Idle
    /\ last' = NoRequest
    /\ UNCHANGED <<db, inflight>>

\* the membership-writing flows, which every specification needs
Membership ==
    \/ Idle /\ \E u \in Users : Register(u)
    \/ Idle /\ \E t \in Tokens, p \in OrgIds \cup {NoId} : CreateOrganization(t, p)
    \/ Idle /\ \E t \in Tokens, o \in OrgInputs, e \in Users, r \in Roles :
                  CreateInvitation(t, o, e, r)
    \/ Idle /\ \E i \in InvInputs : AcceptInvitation(i)
    \/ Respond

\* the routes behind OrgRolesGuard: tasks, audit log, the two test routes
Next ==
    \/ Membership
    \/ Idle /\ \E t \in Tokens, o \in OrgInputs : AdminTest(t, o)
    \/ Idle /\ \E t \in Tokens, o \in OrgInputs : OwnerTest(t, o)
    \/ Idle /\ \E t \in Tokens, o \in OrgInputs : CreateTask(t, o)
    \/ Idle /\ \E t \in Tokens, o \in OrgInputs : ListTasks(t, o)
    \/ Idle /\ \E t \in Tokens, o \in OrgInputs : ListDeletedTasks(t, o)
    \/ Idle /\ \E t \in Tokens, i \in TaskInputs, b \in BodyOrgInputs,
                  d \in UpdateDtos : UpdateTask(t, i, b, d)
    \/ Idle /\ \E t \in Tokens, i \in TaskInputs, b \in BodyOrgInputs :
                  DeleteTask(t, i, b)
    \/ Idle /\ \E t \in Tokens, i \in TaskInputs, b \in BodyOrgInputs :
                  RestoreTask(t, i, b)
    \/ Idle /\ \E t \in Tokens, o \in OrgInputs : ReadAuditLog(t, o)

Spec == Init /\ [][Next]_vars

\* the invitation life cycle
NextInvitations ==
    \/ Membership
    \/ Idle /\ \E t \in Tokens, o \in OrgInputs, r \in Roles :
                  CreateInvitation(t, o, Newcomer, r)
    \/ Idle /\ \E t \in Tokens, o \in OrgInputs : ListInvitations(t, o)
    \/ Idle /\ \E i \in InvIds : ExpiryPasses(i)
    \/ Idle /\ \E t \in Tokens, i \in InvInputs : RevokeInvitation(t, i)
    \/ Idle /\ \E t \in Tokens, i \in InvInputs : ResendInvitation(t, i)

SpecInvitations == Init /\ [][NextInvitations]_vars

\* the organization routes
NextOrganizations ==
    \/ Membership
    \/ Idle /\ \E t \in Tokens, i \in OrgInputs : FindOrganization(t, i)
    \/ Idle /\ \E t \in Tokens, i \in OrgInputs, n \in {"N1", Undefined} :
                  UpdateOrganization(t, i, n)
    \/ Idle /\ \E t \in Tokens, i \in OrgInputs : RemoveOrganization(t, i)

SpecOrganizations == Init /\ [][NextOrganizations]_vars

\* every route that writes to the store, and the audit-log read; task
\* requests carry no organizationId of their own, updates change every field
NextWrites ==
    \/ Membership
    \/ Idle /\ \E t \in Tokens, o \in OrgInputs : CreateTask(t, o)
    \/ Idle /\ \E t \in Tokens, i \in TaskInputs : UpdateTask(t, i, NoId, Dto("T1", "DONE"))
    \/ Idle /\ \E t \in Tokens, i \in TaskInputs : DeleteTask(t, i, NoId)
    \/ Idle /\ \E t \in Tokens, i \in TaskInputs : RestoreTask(t, i, NoId)
    \/ Idle /\ \E t \in Tokens, o \in OrgInputs : ReadAuditLog(t, o)
    \/ Idle /\ \E t \in Tokens, i \in InvInputs : RevokeInvitation(t, i)
    \/ Idle /\ \E t \in Tokens, i \in InvInputs : ResendInvitation(t, i)
    \/ Idle /\ \E t \in Tokens, i \in OrgInputs : UpdateOrganization(t, i, "N1")
    \/ Idle /\ \E t \in Tokens, i \in OrgInputs : RemoveOrganization(t, i)

SpecWrites == Init /\ [][NextWrites]_vars

\* the organization-scoped routes, each request naming an organization where
\* its handler looks for it and possibly another one elsewhere
NextScoped ==
    \/ Membership
    \/ Idle /\ \E t \in Tokens, o \in OrgInputs, q \in BodyOrgInputs :
                  CreateTaskSent(t, o, q)
    \/ Idle /\ \E t \in Tokens, b \in BodyOrgInputs, o \in OrgInputs :
                  ListTasksSent(t, b, o)
    \/ Idle /\ \E t \in Tokens, b \in BodyOrgInputs, o \in OrgInputs :
                  ListDeletedTasksSent(t, b, o)
    \/ Idle /\ \E t \in Tokens, b \in BodyOrgInputs, o \in OrgInputs :
                  ReadAuditLogSent(t, b, o)
    \/ Idle /\ \E t \in Tokens, o \in OrgInputs, q \in BodyOrgInputs, r \in Roles :
                  CreateInvitationSent(t, o, q, Newcomer, r)
    \/ Idle /\ \E t \in Tokens, o \in OrgInputs, b \in BodyOrgInputs,
                  q \in BodyOrgInputs : ListInvitationsSent(t, o, b, q)

SpecScoped == Init /\ [][NextScoped]_vars

\* the task routes, each request handled with every lookup answering or with
\* one of them failing; updates change every field
NextFaults ==
    \/ Membership
    \/ Idle /\ \E f \in Lookups \cup {NoFault}, t \in Tokens, o \in OrgInputs :
                  CreateTaskSentWhen(f, t, o, NoId)
    \/ Idle /\ \E f \in Lookups \cup {NoFault}, t \in Tokens, o \in OrgInputs :
                  ListTasksSentWhen(f, t, NoId, o)
    \/ Idle /\ \E f \in Lookups \cup {NoFault}, t \in Tokens, i \in TaskInputs,
                  b \in BodyOrgInputs : UpdateTaskWhen(f, t, i, b, Dto("T1", "DONE"))
    \/ Idle /\ \E f \in Lookups \cup {NoFault}, t \in Tokens, i \in TaskInputs,
                  b \in BodyOrgInputs : DeleteTaskWhen(f, t, i, b)
    \/ Idle /\ \E f \in Lookups \cup {NoFault}, t \in Tokens, i \in TaskInputs,
                  b \in BodyOrgInputs : RestoreTaskWhen(f, t, i, b)

SpecFaults == Init /\ [][NextFaults]_vars

\* POST /invitations, await by await: the guards and the two role tests of
\* InvitationsService.createInvitation run before its first await
BeginCreateInvitation(w, token, org, email, role) ==
    LET req == UseGuards(JwtOrg,
                   NewRequest("createInvitation", token, NoId, NoId, org, NoId),
                   InvitationsCreateRoles)
        work == [NoWork EXCEPT !.op = "createInvitation", !.user = req.user,
                               !.org = org, !.role = role, !.email = email]
    IN  /\ inflight[w] = NoWork
        /\ inflight' = [inflight EXCEPT ![w] =
              IF req.status # 0
              THEN [work EXCEPT !.pc = "done", !.status = req.status]
              ELSE IF ~canInvite(req.userOrgRole)
                      \/ ~canGrantRole(req.userOrgRole, role)
              THEN [work EXCEPT !.pc = "done", !.status = Forbidden]
              ELSE [work EXCEPT !.pc = "findOrganization"]]
        /\ UNCHANGED <<db, last>>

\* await organizationRepository.findOne({ where: { id: dto.organizationId } })
FindInvitedOrganization(w) ==
    /\ inflight[w].op = "createInvitation"
    /\ inflight[w].pc = "findOrganization"
    /\ IF OrgExists(inflight[w].org)
       THEN Goto(w, "findMember")
       ELSE Done(w, NotFound)
    /\ UNCHANGED <<db, last>>

\* await userRepository.findOne, await userOrgRepository.findOne
FindExistingMember(w) ==
    LET me == inflight[w]
    IN  /\ me.op = "createInvitation"
        /\ me.pc = "findMember"
        /\ IF me.email \in users
                /\ getUserOrganizationRole(me.email, me.org) # Null
           THEN Done(w, Conflict)
           ELSE Goto(w, "findPending")
        /\ UNCHANGED <<db, last>>

\* await invitationRepository.findOne({ email, organizationId, status: PENDING })
FindPendingInvitation(w) ==
    LET me == inflight[w]
    IN  /\ me.op = "createInvitation"
        /\ me.pc = "findPending"
        /\ IF PendingInvitationExists(me.email, me.org)
           THEN Done(w, Conflict)
           ELSE Goto(w, "saveInvitation")
        /\ UNCHANGED <<db, last>>

\* await invitationRepository.save(invitation)
SaveInvitation(w) ==
    LET me == inflight[w]
    IN  /\ me.op = "createInvitation"
        /\ me.pc = "saveInvitation"
        /\ Len(invitations) < MaxInvitations
        /\ invitations' = Append(invitations,
                               [ email          |-> me.email,
                                 role           |-> me.role,
                                 status         |-> PENDING,
                                 organizationId |-> me.org,
                                 invitedById    |-> me.user,
                                 pastExpiry     |-> FALSE ])
        /\ Done(w, Created)
        /\ UNCHANGED <<users, organizations, memberships, tasks, last>>

\* no response is waiting to be sent
Quiet == Idle /\ \A w \in Workers : inflight[w].pc # "done"

\* organization creations and invitation acceptances interleaving, await by
\* await; users register and invitations are created one request at a time,
\* and no invitation passes its expiry
NextConcurrent ==
    \/ Quiet /\ \E u \in Users : Register(u)
    \/ Quiet /\ \E t \in Tokens, o \in OrgInputs, e \in Users, r \in Roles :
                  CreateInvitation(t, o, e, r)
    \/ Respond
    \/ Quiet /\ \E w \in Workers, t \in Tokens, p \in OrgIds \cup {NoId} :
                  BeginCreateOrganization(w, t, p)
    \/ Quiet /\ \E w \in Workers : SaveOrganization(w)
    \/ Quiet /\ \E w \in Workers : SaveOwner(w)
    \/ Quiet /\ \E w \in Workers, i \in InvInputs : BeginAcceptInvitation(w, i)
    \/ Quiet /\ \E w \in Workers : FindUser(w)
    \/ Quiet /\ \E w \in Workers : SaveUser(w)
    \/ Quiet /\ \E w \in Workers : FindMembership(w)
    \/ Quiet /\ \E w \in Workers : SaveMembership(w)
    \/ Quiet /\ \E w \in Workers : SaveAccepted(w)
    \/ Quiet /\ \E w \in Workers : Interrupt(w)
    \/ \E w \in Workers : Return(w)

SpecConcurrent == Init /\ [][NextConcurrent]_vars

\* invitation creations interleaving, await by await, with acceptances,
\* revocations and resends; invitations are for role ADMIN or VIEWER
NextPending ==
    \/ Quiet /\ \E u \in Users : Register(u)
    \/ Quiet /\ \E t \in Tokens : CreateOrganization(t, NoId)
    \/ Respond
    \/ Quiet /\ \E w \in Workers, t \in Tokens, o \in OrgInputs, e \in Users,
                   r \in {ADMIN, VIEWER} : BeginCreateInvitation(w, t, o, e, r)
    \/ Quiet /\ \E w \in Workers : FindInvitedOrganization(w)
    \/ Quiet /\ \E w \in Workers : FindExistingMember(w)
    \/ Quiet /\ \E w \in Workers : FindPendingInvitation(w)
    \/ Quiet /\ \E w \in Workers : SaveInvitation(w)
    \/ \E w \in Workers : Return(w)
    \/ Quiet /\ \E i \in InvInputs : AcceptInvitation(i)
    \/ Quiet /\ \E t \in Tokens, i \in InvInputs : RevokeInvitation(t, i)
    \/ Quiet /\ \E t \in Tokens, i \in InvInputs : ResendInvitation(t, i)

SpecPending == Init /\ [][NextPending]_vars

\* =================================================================== claims
\* the controller method ran (every guard of the route let the request pass)
Admitted(a) == a.stages # <<>> /\ a.stages[Len(a.stages)] = "handler"

\* the caller's memberships, read from the store
RolesOf(u, org) ==
    {m.role : m \in {x \in memberships : x.userId = u /\ x.organizationId = org}}

MinimumRoleRoutes ==
    {"createTask", "listTasks", "listDeletedTasks", "updateTask", "deleteTask",
     "restoreTask", "adminTest", "ownerTest"}

\* the minimum role each route declares with @OrgRoles
DeclaredMinimum(route) ==
    CASE route \in {"listTasks", "updateTask"} -> VIEWER
      [] route \in {"createTask", "listDeletedTasks", "deleteTask", "restoreTask",
                    "adminTest"} -> ADMIN
      [] route = "ownerTest" -> OWNER

\* the pairs <<caller role, required role>> with rank(caller) >= rank(required),
\* OWNER = 3, ADMIN = 2, VIEWER = 1
RankSatisfied ==
    { <<OWNER, OWNER>>, <<OWNER, ADMIN>>, <<OWNER, VIEWER>>,
      <<ADMIN, ADMIN>>, <<ADMIN, VIEWER>>, <<VIEWER, VIEWER>> }

\* the organization a request is about: the one stored on the task for the
\* routes that name a task, the one the client named for the others
TargetOrg(a) ==
    IF a.route \in {"updateTask", "deleteTask", "restoreTask"}
    THEN IF a.id \in 1..Len(tasks) THEN tasks[a.id].organizationId ELSE NoId
    ELSE a.sentOrg

\* C1: on a route with a minimum role R, a member with role r of the target
\* organization passes the role check exactly when rank(r) >= rank(R); a route
\* with minimum ADMIN admits OWNER and ADMIN and never a VIEWER.
C1_MinimumRoleInheritance ==
    \A r \in Roles :
        (/\ last.route \in MinimumRoleRoutes
         /\ last.token \in users
         /\ TargetOrg(last) # NoId
         /\ RolesOf(last.token, TargetOrg(last)) = {r}) =>
            /\ (Admitted(last) <=>
                    <<r, DeclaredMinimum(last.route)>> \in RankSatisfied)
            /\ (~Admitted(last) => last.status = Forbidden)
            /\ (DeclaredMinimum(last.route) = ADMIN /\ Admitted(last)
                    => r \in {OWNER, ADMIN})

\* a VIEWER of the organization is refused on the ADMIN route
C1_Witness ==
    /\ last.route = "adminTest"
    /\ RolesOf(last.token, last.sentOrg) = {VIEWER}
    /\ last.status = Forbidden

\* the only membership of u is OWNER of organization a
OnlyOwnerOf(u, a) ==
    {<<m.organizationId, m.role>> : m \in {x \in memberships : x.userId = u}} =
        {<<a, OWNER>>}

\* the answer `a` is to a request of u that names organization b or a task of b
NamesOrg(a, u, b) ==
    /\ a.token = u
    /\ OrgExists(b)
    /\ \/ a.route \in {"listTasks", "createTask", "readAuditLog"} /\ a.sentOrg = b
       \/ /\ a.route \in {"updateTask", "deleteTask", "restoreTask"}
          /\ a.id \in 1..Len(tasks)
          /\ tasks[a.id].organizationId = b

TaskByIdRoutes == {"updateTask", "deleteTask", "restoreTask"}

\* C3: on update, delete and restore by id the membership and role are checked
\* against the organization stored on the task, whatever organizationId the
\* caller put in the body.
C3_TaskOrgIsCheckedOrg ==
    (last.route \in TaskByIdRoutes /\ last.token \in users
        /\ last.id \in 1..Len(tasks)) =>
            /\ last.checkedOrg = tasks[last.id].organizationId
            /\ last.memberRole \in
                  (IF RolesOf(last.token, tasks[last.id].organizationId) = {}
                   THEN {Null}
                   ELSE RolesOf(last.token, tasks[last.id].organizationId))

\* the body named another organization than the one stored on the task
C3_Witness ==
    /\ last.route = "updateTask"
    /\ last.id \in 1..Len(tasks)
    /\ last.sentOrg \in OrgIds
    /\ last.sentOrg # tasks[last.id].organizationId
    /\ RolesOf(last.token, last.sentOrg) # {}
    /\ last.checkedOrg = tasks[last.id].organizationId

\* the answer is to a task update that the guards let through for a caller
\* whose role in the task's organization is VIEWER
ViewerUpdate(a) ==
    /\ a.route = "updateTask"
    /\ Admitted(a)
    /\ RolesOf(a.token, TargetOrg(a)) = {VIEWER}

\* C4 as the specification states it: a VIEWER's update is accepted exactly
\* when no field other than status is present, and refused with Forbidden
\* otherwise.
C4_AcceptedIffOnlyStatus ==
    ViewerUpdate(last) =>
        /\ (last.status = Ok <=> last.keys \subseteq {"status"})
        /\ (~(last.keys \subseteq {"status"}) => last.status = Forbidden)

\* C4: a VIEWER's update is refused with Forbidden exactly when a field other
\* than status (and the guard-injected organizationId) is present; a payload
\* of status alone is applied when the task is live and answered NotFound
\* when the task is soft-deleted.
C4_ViewerFieldPolicy ==
    ViewerUpdate(last) =>
        /\ (last.status = Forbidden <=> ~(last.keys \subseteq {"status"}))
        /\ (last.keys \subseteq {"status"} =>
                last.status = IF tasks[last.id].deleted THEN NotFound ELSE Ok)
        /\ (last.keys = {"status"} /\ last.status = Ok =>
                tasks[last.id].status = "DONE")

\* a VIEWER changed the status of a live task, organizationId in the body
C4_Witness ==
    /\ ViewerUpdate(last)
    /\ last.keys = {"status"}
    /\ last.sentOrg # NoId
    /\ last.status = Ok
    /\ tasks[last.id].status = "DONE"

\* C5: an authenticated inviter passes the role gate exactly when their role in
\* the target organization is OWNER, or ADMIN with requested role ADMIN or
\* VIEWER; everyone else is answered Forbidden and no invitation is stored; an
\* invitation that is stored is PENDING with the requested role.
C5_InvitationRoleGate ==
    [][ (last'.route = "createInvitation" /\ last'.token \in users) =>
          LET inviter == RolesOf(last'.token, last'.sentOrg)
              passes == \/ inviter = {OWNER}
                        \/ inviter = {ADMIN} /\ last'.reqRole \in {ADMIN, VIEWER}
          IN  /\ last'.status # Forbidden <=> passes
              /\ last'.status = Forbidden => invitations' = invitations
              /\ invitations' # invitations =>
                    /\ passes
                    /\ last'.status = Created
                    /\ Len(invitations') = Len(invitations) + 1
                    /\ invitations'[Len(invitations')].role = last'.reqRole
                    /\ invitations'[Len(invitations')].status = PENDING
      ]_vars

\* an ADMIN of the organization asked for an OWNER invitation and was refused
C5_Witness ==
    /\ last.route = "createInvitation"
    /\ RolesOf(last.token, last.sentOrg) = {ADMIN}
    /\ last.reqRole = OWNER
    /\ last.status = Forbidden
    /\ Admitted(last)

\* the routes of this specification that declare roles with @OrgRoles
OrgRolesRoutes ==
    MinimumRoleRoutes \cup {"readAuditLog", "createInvitation"}

\* C6: on a route that declares roles, an authenticated caller without a
\* membership in the target organization is answered Forbidden and the
\* controller method does not run, whatever the caller holds elsewhere.
C6_NonMemberForbidden ==
    (/\ last.route \in OrgRolesRoutes
     /\ last.token \in users
     /\ TargetOrg(last) # NoId
     /\ RolesOf(last.token, TargetOrg(last)) = {}) =>
        /\ last.status = Forbidden
        /\ ~Admitted(last)

\* the OWNER of one organization listed the tasks of another and was refused
C6_Witness ==
    /\ last.route = "listTasks"
    /\ last.token \in users
    /\ OrgExists(last.sentOrg)
    /\ RolesOf(last.token, last.sentOrg) = {}
    /\ \E o \in OrgIds : RolesOf(last.token, o) = {OWNER}
    /\ last.status = Forbidden

\* C7: an authenticated PUT /tasks/:id whose id matches no task is answered
\* NotFound by TaskOrgGuard; OrgRolesGuard does not run, so no membership is
\* looked up and no role compared, whatever the caller's memberships are.
C7_MissingTaskNotFound ==
    (/\ last.route = "updateTask"
     /\ last.token \in users
     /\ last.id \notin 1..Len(tasks)) =>
        /\ last.status = NotFound
        /\ last.stages = <<"JwtAuthGuard", "TaskOrgGuard">>
        /\ last.checkedOrg = NoId
        /\ last.memberRole = Undefined
        /\ last.userOrgRole = Undefined

\* a member of the organization named in the body updated a missing task
C7_Witness ==
    /\ last.route = "updateTask"
    /\ last.id = MissingId
    /\ last.sentOrg \in OrgIds
    /\ RolesOf(last.token, last.sentOrg) # {}
    /\ last.status = NotFound

\* the stages of a request in their fixed order: identity check, organization
\* resolution (by-id routes only), membership and role check, handler
StageOrder(route) ==
    IF route \in TaskByIdRoutes
    THEN <<"JwtAuthGuard", "TaskOrgGuard", "OrgRolesGuard", "handler">>
    ELSE <<"JwtAuthGuard", "OrgRolesGuard", "handler">>

\* the status a stage answers with when it rejects
StageFailure(stage) ==
    CASE stage = "JwtAuthGuard" -> Unauthorized
      [] stage = "TaskOrgGuard" -> NotFound
      [] stage = "OrgRolesGuard" -> Forbidden

\* C8: the stages run in the fixed order and the first rejection ends the
\* request with that stage's status: Unauthorized before NotFound before
\* Forbidden; the handler runs only after every guard has passed.
C8_PipelineOrder ==
    last.route \in OrgRolesRoutes =>
        LET order == StageOrder(last.route)
            n == Len(last.stages)
        IN  /\ n \in 1..Len(order)
            /\ last.stages = SubSeq(order, 1, n)
            /\ Admitted(last) <=> n = Len(order)
            /\ ~Admitted(last) => last.status = StageFailure(last.stages[n])
            /\ last.token \notin users => last.status = Unauthorized
            /\ (/\ last.token \in users
                /\ last.route \in TaskByIdRoutes
                /\ last.id \notin 1..Len(tasks)) => last.status = NotFound

\* an anonymous delete of a missing task: Unauthorized, not NotFound
C8_Witness ==
    /\ last.route = "deleteTask"
    /\ last.token \notin users
    /\ last.id = MissingId
    /\ last.status = Unauthorized
    /\ last.stages = <<"JwtAuthGuard">>

\* C9: a VIEWER's update that carries status together with another field is
\* answered Forbidden and leaves every stored task as it was.
C9_MixedPayloadRejectedWhole ==
    [][ (/\ last'.route = "updateTask"
         /\ last'.token \in users
         /\ last'.id \in 1..Len(tasks)
         /\ RolesOf(last'.token, tasks[last'.id].organizationId) = {VIEWER}
         /\ "status" \in last'.keys
         /\ last'.keys # {"status"}) =>
            /\ last'.status = Forbidden
            /\ tasks' = tasks
      ]_vars

\* a VIEWER sent title and status; the task keeps both its title and status
C9_Witness ==
    /\ ViewerUpdate(last)
    /\ last.keys = {"title", "status"}
    /\ last.status = Forbidden
    /\ tasks[last.id].status = "TODO"
    /\ tasks[last.id].title = "T0"

\* the step answers a revoke or resend of a stored invitation by a user who
\* holds neither OWNER nor ADMIN in the invitation's organization
OutsiderManages ==
    /\ last'.route \in {"revokeInvitation", "resendInvitation"}
    /\ last'.token \in users
    /\ last'.id \in 1..Len(invitations)
    /\ RolesOf(last'.token, invitations[last'.id].organizationId)
            \cap {OWNER, ADMIN} = {}

StaleFor(route, status) ==
    IF route = "revokeInvitation" THEN status # PENDING ELSE status = ACCEPTED

RowsOf(u, org) ==
    {m \in memberships : m.userId = u /\ m.organizationId = org}

\* C11: in every reachable state, under every interleaving of organization
\* creations and invitation acceptances, there is at most one membership row
\* per (user, organization) pair.
C11_OneMembershipPerPair ==
    \A m1 \in memberships, m2 \in memberships :
        (m1.userId = m2.userId /\ m1.organizationId = m2.organizationId)
            => m1 = m2

\* two acceptances of the same invitation race: one has inserted the row,
\* the other has seen no row and is about to insert it
C11_Witness ==
    \E w \in Workers, v \in Workers :
        /\ w # v
        /\ inflight[w].op = "acceptInvitation"
        /\ inflight[v].op = "acceptInvitation"
        /\ inflight[w].id = inflight[v].id
        /\ inflight[w].pc = "saveMembership"
        /\ inflight[v].pc = "saveAccepted"
        /\ RowsOf(inflight[w].user, inflight[w].org) # {}

\* C12: every organization creation that succeeds leaves exactly one
\* membership row for the new organization: the creator's, with role OWNER.
C12_CreatorIsSoleOwner ==
    [][ \A w \in Workers :
          (/\ inflight[w].op = "createOrganization"
           /\ inflight[w].pc = "saveOwner"
           /\ inflight'[w].pc = "done"
           /\ inflight'[w].status = Created) =>
              LET rows == {m \in memberships' :
                              m.organizationId = inflight[w].org}
              IN  /\ Cardinality(rows) = 1
                  /\ \A m \in rows : m.userId = inflight[w].user /\ m.role = OWNER
      ]_vars

\* a creation has just succeeded
C12_Witness ==
    \E w \in Workers :
        /\ inflight[w].op = "createOrganization"
        /\ inflight[w].pc = "done"
        /\ inflight[w].status = Created
        /\ OrgExists(inflight[w].org)
        /\ RowsOf(inflight[w].user, inflight[w].org) # {}

\* C13 as the specification states it: no organization is stored without an
\* OWNER member, except while its creation is still between its two writes.
C13_NoOrganizationWithoutOwner ==
    \A o \in 1..Len(organizations) :
        \/ \E m \in memberships : m.organizationId = o /\ m.role = OWNER
        \/ \E w \in Workers :
              /\ inflight[w].op = "createOrganization"
              /\ inflight[w].pc = "saveOwner"
              /\ inflight[w].org = o

\* C14: accepting a PENDING, unexpired invitation for a user without a
\* membership in the invitation's organization adds exactly one membership
\* row: that user's, in that organization, with the invitation's role; every
\* other row stays.
C14_AcceptCopiesRole ==
    [][ (/\ last'.route = "acceptInvitation"
         /\ last'.id \in 1..Len(invitations)
         /\ invitations[last'.id].status = PENDING
         /\ ~invitations[last'.id].pastExpiry
         /\ RowsOf(invitations[last'.id].email,
                   invitations[last'.id].organizationId) = {}) =>
            LET inv == invitations[last'.id]
                gained == memberships' \ memberships
            IN  /\ last'.status = Ok
                /\ memberships \subseteq memberships'
                /\ Cardinality(gained) = 1
                /\ \A m \in gained : /\ m.userId = inv.email
                                     /\ m.organizationId = inv.organizationId
                                     /\ m.role = inv.role
      ]_vars

\* an ADMIN invitation was accepted by a user who is OWNER of another
\* organization
C14_Witness ==
    /\ last.route = "acceptInvitation"
    /\ last.status = Ok
    /\ \E m \in RowsOf(invitations[last.id].email,
                       invitations[last.id].organizationId) : m.role = ADMIN
    /\ invitations[last.id].role = ADMIN
    /\ \E m \in memberships : /\ m.userId = invitations[last.id].email
                              /\ m.organizationId # invitations[last.id].organizationId

\* C15: every stored invitation, whatever its status, carries a role that
\* its inviter's role in the invitation's organization may grant: the inviter
\* is OWNER there, or ADMIN and the invitation's role is ADMIN or VIEWER; an
\* OWNER invitation was authored by an OWNER.
C15_StoredRoleIsGrantable ==
    \A i \in {x \in 1..Len(invitations) : InvitationExists(x)} :
        LET inv == invitations[i]
            inviter == RolesOf(inv.invitedById, inv.organizationId)
        IN  /\ \/ inviter = {OWNER}
               \/ inviter = {ADMIN} /\ inv.role \in {ADMIN, VIEWER}
            /\ inv.role = OWNER => inviter = {OWNER}

\* an ADMIN who joined through an OWNER's invitation has authored an ADMIN
\* invitation
C15_Witness ==
    \E i \in 1..Len(invitations), j \in 1..Len(invitations) :
        /\ RolesOf(invitations[i].invitedById, invitations[i].organizationId)
                = {ADMIN}
        /\ invitations[i].role = ADMIN
        /\ invitations[j].status = ACCEPTED
        /\ invitations[j].email = invitations[i].invitedById
        /\ RolesOf(invitations[j].invitedById, invitations[j].organizationId)
                = {OWNER}

\* the status OrgRolesGuard gives a request of user u that names
\* organization id on a route with these roles
GuardStatus(u, id, roles) ==
    UseGuards(JwtOrg, NewRequest("probe", u, NoId, NoId, NoId, id), roles).status

\* C16 as the specification states it: a registered user gets the same
\* status for an organization id that does not exist and for an existing
\* organization they are no member of, on the routes behind OrgRolesGuard, on
\* GET /organizations/:id and on POST /organizations with that id as parent.
C16_ExistenceNotLeaked ==
    \A u \in users, x \in OrgIds, y \in OrgIds \cup {MissingId} :
        (OrgExists(x) /\ RolesOf(u, x) = {} /\ ~OrgExists(y)) =>
            /\ \A roles \in {{VIEWER}, {ADMIN}, {OWNER, ADMIN}} :
                  GuardStatus(u, x, roles) = GuardStatus(u, y, roles)
            /\ findOne(u, x) = findOne(u, y)
            /\ ParentRefusal(u, x) = ParentRefusal(u, y)

\* the organization-scoped routes, which take the organization id from the client
ScopedRoutes ==
    {"listTasks", "createTask", "listDeletedTasks", "readAuditLog",
     "createInvitation", "listInvitations"}

\* C17: on an organization-scoped route, an admitted request's handler reads
\* or writes the organization the guard resolved and checked the caller's
\* membership against.
C17_HandlerUsesGuardOrganization ==
    (last # NoRequest /\ last.route \in ScopedRoutes /\ Admitted(last)) =>
        last.readOrg = last.checkedOrg

\* the step added exactly one membership row, for this user, organization and role
AddsRow(userId, organizationId, role) ==
    \E m \in memberships' \ memberships :
        /\ memberships' = memberships \cup {m}
        /\ m.userId = userId
        /\ m.organizationId = organizationId
        /\ m.role = role

\* C18 as stated: memberships change only when an organization is created or
\* an invitation is accepted; every other operation, organization delete
\* included, leaves the set of memberships and their roles unchanged.
C18_OnlyTwoPathsChangeMemberships ==
    [][memberships' # memberships =>
          last'.route \in {"createOrganization", "acceptInvitation"}]_vars

\* C18: a membership row is added only by organization creation (OWNER, for
\* the creator, in the new organization) and by invitation acceptance (the
\* invitation's role, for the invitee, in the invitation's organization); no
\* operation changes the role of a row; rows disappear only when their
\* organization is deleted, and then only that organization's rows.
C18_MembershipFrame ==
    [][\/ memberships' = memberships
       \/ /\ last'.route = "createOrganization"
          /\ AddsRow(last'.token, last'.id, OWNER)
       \/ /\ last'.route = "acceptInvitation"
          /\ AddsRow(invitations[last'.id].email,
                     invitations[last'.id].organizationId,
                     invitations[last'.id].role)
       \/ /\ last'.route = "removeOrganization"
          /\ memberships' =
                {m \in memberships : m.organizationId # last'.id}]_vars

\* an OWNER deleted an organization and its rows went with it, the rows of
\* another organization stayed; an earlier task write had left all rows alone
C18_Witness ==
    /\ last.route = "removeOrganization"
    /\ last.status = NoContent
    /\ ~OrgExists(last.id)
    /\ RowsOf(last.token, last.id) = {}
    /\ memberships # {}
    /\ \E i \in 1..Len(tasks) : tasks[i].status = "DONE"

\* the guard chain and the @OrgRoles of every route behind OrgRolesGuard;
\* byTask: the request names a task, not an organization
GuardedRoutes ==
    { [guards |-> JwtOrg, roles |-> TasksCreateRoles, byTask |-> FALSE],
      [guards |-> JwtOrg, roles |-> TasksFindAllRoles, byTask |-> FALSE],
      [guards |-> JwtOrg, roles |-> TasksFindDeletedRoles, byTask |-> FALSE],
      [guards |-> TasksUpdateGuards, roles |-> TasksUpdateRoles, byTask |-> TRUE],
      [guards |-> TasksRemoveGuards, roles |-> TasksRemoveRoles, byTask |-> TRUE],
      [guards |-> TasksRestoreGuards, roles |-> TasksRestoreRoles, byTask |-> TRUE],
      [guards |-> JwtOrg, roles |-> AdminTestRoles, byTask |-> FALSE],
      [guards |-> JwtOrg, roles |-> OwnerTestRoles, byTask |-> FALSE],
      [guards |-> JwtOrg, roles |-> AuditFindAllRoles, byTask |-> FALSE],
      [guards |-> JwtOrg, roles |-> InvitationsCreateRoles, byTask |-> FALSE],
      [guards |-> JwtOrg, roles |-> InvitationsListRoles, byTask |-> FALSE] }

\* the guards of route g let the request of user u through, the request
\* naming task id (byTask) or organization org
GuardsAdmit(g, u, org, id) ==
    UseGuards(g.guards,
              NewRequest("probe", u, IF g.byTask THEN id ELSE NoId,
                         NoId, NoId, IF g.byTask THEN NoId ELSE org),
              g.roles).status = 0

\* the organization the request is about
ProbedOrg(g, org, id) ==
    IF ~g.byTask THEN org
    ELSE IF findByIdWithDeleted(id) THEN tasks[id].organizationId
    ELSE NoId

\* u2 holds a role of strictly higher rank than u1 in the organization
Outranks(u2, u1, org) ==
    \E r1 \in RolesOf(u1, org), r2 \in RolesOf(u2, org) :
        r1 # r2 /\ <<r2, r1>> \in RankSatisfied

\* the request of a caller the guards admitted with this role
AdmittedAs(role) ==
    [NewRequest("probe", Anonymous, NoId, NoId, NoId, NoId)
        EXCEPT !.userOrgRole = role]

\* C19: admission is monotone in rank. On every guarded route, a request
\* that the guards admit for a member of the target organization is admitted
\* as well for every member holding a role of higher rank there; and the
\* role rules inside the handlers (who may invite, which role may be
\* granted, which fields a role may update) never allow a role what they
\* refuse a higher one.
C19_AdmissionMonotone ==
    /\ \A u1 \in users, u2 \in users, target \in OrgIds :
          Outranks(u2, u1, target) =>
              \A g \in GuardedRoutes, org \in OrgIds, id \in TaskIds :
                  (ProbedOrg(g, org, id) = target /\ GuardsAdmit(g, u1, org, id))
                      => GuardsAdmit(g, u2, org, id)
    /\ \A p \in RankSatisfied :
          /\ \A x \in Roles :
                (canInvite(p[2]) /\ canGrantRole(p[2], x))
                    => (canInvite(p[1]) /\ canGrantRole(p[1], x))
          /\ \A dto \in UpdateDtos :
                ViewerFieldViolation(dto, AdmittedAs(p[1]))
                    => ViewerFieldViolation(dto, AdmittedAs(p[2]))

\* a member below OWNER was just admitted on a guarded route of an
\* organization in which another user holds a higher role
C19_Witness ==
    /\ last.route \in OrgRolesRoutes
    /\ Admitted(last)
    /\ last.memberRole \in {VIEWER, ADMIN}
    /\ \E u2 \in users : Outranks(u2, last.token, last.checkedOrg)

\* the routes whose guards look the task up
TaskLookupRoutes == {"updateTask", "deleteTask", "restoreTask"}

\* the answer a' is to a request whose guards reached the lookup that fails:
\* the task lookup of an authenticated request that names a task, the
\* membership lookup of an authenticated request whose organization is known
\* (named by the client, or stored on the task the request names)
LookupFailed(a) ==
    /\ a.token \in users
    /\ \/ a.fault = "task" /\ a.route \in TaskLookupRoutes
       \/ /\ a.fault = "membership"
          /\ a.route \in TaskLookupRoutes => findByIdWithDeleted(a.id)
          /\ a.route \in TaskLookupRoutes \cup {"createTask", "listTasks"}

\* C20: a request whose task lookup or membership lookup fails to complete
\* is answered with an infrastructure error (500), its handler does not run
\* and the store is left as it was; it is never admitted.
C20_LookupFailureFailsClosed ==
    [][LookupFailed(last') =>
          /\ last'.status = InternalServerError
          /\ ~Admitted(last')
          /\ <<users, organizations, memberships, tasks, invitations>>' =
                 <<users, organizations, memberships, tasks, invitations>>]_vars

\* the task lookup failed for a request that would otherwise have been let
\* through: an OWNER's update of an existing task of their organization
C20_Witness ==
    /\ last.route = "updateTask"
    /\ last.fault = "task"
    /\ last.status = InternalServerError
    /\ findByIdWithDeleted(last.id)
    /\ OWNER \in RolesOf(last.token, tasks[last.id].organizationId)
    /\ last.sentOrg = tasks[last.id].organizationId

\* the user is OWNER or ADMIN of the organization of a stored invitation
ManagesInvitation(u, id) ==
    /\ u \in users
    /\ InvitationExists(id)
    /\ RolesOf(u, invitations[id].organizationId) \cap {OWNER, ADMIN} # {}

\* C21: DELETE /invitations/{id} by an OWNER or ADMIN of the invitation's
\* organization, on an invitation whose status is PENDING, succeeds and
\* leaves the invitation REVOKED.
C21_ManagerRevokesPending ==
    [][(/\ last'.route = "revokeInvitation"
        /\ ManagesInvitation(last'.token, last'.id)
        /\ invitations[last'.id].status = PENDING) =>
          /\ last'.status = Ok
          /\ invitations'[last'.id].status = REVOKED]_vars

\* C22: an acceptance adds a membership or a user only if the invitation is
\* PENDING and not past its expiry when it is accepted; accepting an
\* invitation that is ACCEPTED, REVOKED, EXPIRED or past its expiry is
\* refused (400) and adds no membership and no user.
C22_AcceptOnlyPendingUnexpired ==
    [][(last'.route = "acceptInvitation" /\ InvitationExists(last'.id)) =>
          LET inv == invitations[last'.id]
              open == inv.status = PENDING /\ ~inv.pastExpiry
          IN  /\ ~open => /\ last'.status = BadRequest
                          /\ memberships' = memberships
                          /\ users' = users
              /\ (memberships' # memberships \/ users' # users) => open
              /\ open => last'.status = Ok]_vars

\* an acceptance that came after the expiry was refused: the invitation is
\* now EXPIRED and the invitee has neither an account nor a membership
C22_Witness ==
    /\ last.route = "acceptInvitation"
    /\ last.status = BadRequest
    /\ InvitationExists(last.id)
    /\ invitations[last.id].status = EXPIRED
    /\ invitations[last.id].email \notin users
    /\ RowsOf(invitations[last.id].email, invitations[last.id].organizationId) = {}

\* the user is OWNER or ADMIN of the organization of a stored task
ManagesTask(u, id) ==
    /\ u \in users
    /\ id \in 1..Len(tasks)
    /\ OrgExists(tasks[id].organizationId)
    /\ RolesOf(u, tasks[id].organizationId) \cap {OWNER, ADMIN} # {}

\* C23: PATCH /tasks/{id}/restore on a soft-deleted task, by an ADMIN or
\* OWNER of the task's organization, passes the organization-resolution step
\* (no 404 from TaskOrgGuard), succeeds, and leaves the task not deleted.
C23_ManagerRestoresDeleted ==
    [][(/\ last'.route = "restoreTask"
        /\ last'.fault = NoFault
        /\ ManagesTask(last'.token, last'.id)
        /\ tasks[last'.id].deleted) =>
          /\ last'.status = Ok
          /\ last'.stages = <<"JwtAuthGuard", "TaskOrgGuard", "OrgRolesGuard",
                              "handler">>
          /\ last'.checkedOrg = tasks[last'.id].organizationId
          /\ ~tasks'[last'.id].deleted]_vars

\* an ADMIN restored a soft-deleted task of their organization
C23_Witness ==
    /\ last.route = "restoreTask"
    /\ last.status = Ok
    /\ last.memberRole = ADMIN
    /\ findById(last.id)

\* C24: every authorization decision is taken on the membership rows stored
\* when the request is handled, so the first request after a membership was
\* created or removed is already decided by the new rows: the role the
\* guard works with is the caller's stored role in the checked organization,
\* a caller without a row there is refused, and an admitted caller has one.
C24_DecisionFromCurrentStore ==
    [][(/\ last' # NoRequest
        /\ last'.route \in OrgRolesRoutes
        /\ last'.fault = NoFault
        /\ last'.checkedOrg # NoId) =>
          LET held == RolesOf(last'.token, last'.checkedOrg)
          IN  /\ held = {} => /\ last'.memberRole = Null
                              /\ last'.status = Forbidden
                              /\ ~Admitted(last')
              /\ held # {} => held = {last'.memberRole}
              /\ Admitted(last') => held = {last'.userOrgRole}]_vars

\* a user who created a task in an organization, hence was ADMIN or OWNER
\* there, asks for its audit log after the organization and its memberships
\* were removed, and is refused
C24_Witness ==
    /\ last.route = "readAuditLog"
    /\ last.status = Forbidden
    /\ last.checkedOrg \in 1..Len(organizations)
    /\ organizations[last.checkedOrg].removed
    /\ \E i \in 1..Len(tasks) :
          /\ tasks[i].organizationId = last.checkedOrg
          /\ tasks[i].assigneeId = last.token

\* the user joined the organization as VIEWER by accepting an invitation and
\* holds no other role there
InvitedViewer(u, org) ==
    /\ RolesOf(u, org) = {VIEWER}
    /\ \E i \in 1..Len(invitations) :
          /\ invitations[i].email = u
          /\ invitations[i].organizationId = org
          /\ invitations[i].role = VIEWER
          /\ invitations[i].status = ACCEPTED

\* C25: after U created organization O, invited a user as VIEWER and the
\* invitee accepted, the invitee's requests are answered: GET /tasks for O
\* with 200 and O's task list; DELETE of a task of O with 403; PUT of a task
\* of O with status alone with 200; PUT with title and status with 403. The
\* refused requests leave the tasks as they were.
C25_ViewerScenario ==
    [][\A org \in OrgIds :
         InvitedViewer(last'.token, org) =>
           /\ (last'.route = "listTasks" /\ last'.sentOrg = org) =>
                 /\ last'.status = Ok
                 /\ last'.data = {i \in 1..Len(tasks) :
                                    tasks[i].organizationId = org /\ ~tasks[i].deleted}
           /\ \A id \in TaskIds :
                (/\ last'.id = id
                 /\ id \in 1..Len(tasks)
                 /\ tasks[id].organizationId = org
                 /\ ~tasks[id].deleted) =>
                   /\ last'.route = "deleteTask" =>
                         last'.status = Forbidden /\ tasks' = tasks
                   /\ (last'.route = "updateTask" /\ last'.keys = {"status"}) =>
                         last'.status = Ok /\ tasks'[id].status = "DONE"
                   /\ (last'.route = "updateTask" /\ last'.keys = {"title", "status"}) =>
                         last'.status = Forbidden /\ tasks' = tasks]_vars

\* the invited VIEWER was just refused an update of title and status, on a
\* task whose status an earlier update had set
C25_Witness ==
    /\ last.route = "updateTask"
    /\ last.keys = {"title", "status"}
    /\ last.status = Forbidden
    /\ last.id \in 1..Len(tasks)
    /\ InvitedViewer(last.token, tasks[last.id].organizationId)
    /\ tasks[last.id].status = "DONE"
    /\ tasks[last.id].title = "T0"

\* the stored invitations that are PENDING for an email and an organization
PendingFor(email, org) ==
    {i \in 1..Len(invitations) :
        /\ InvitationExists(i)
        /\ invitations[i].email = email
        /\ invitations[i].organizationId = org
        /\ invitations[i].status = PENDING}

\* C26: in every reachable state, under every interleaving of invitation
\* creations, resends, revocations and acceptances, at most one invitation
\* is PENDING for any (email, organization) pair.
C26_OnePendingPerPair ==
    \A email \in Users \cup {Newcomer}, org \in OrgIds :
        Cardinality(PendingFor(email, org)) <= 1

\* invitation i is PENDING after the step and was not before it
BecomesPending(i) ==
    /\ i \in 1..Len(invitations')
    /\ invitations'[i].status = PENDING
    /\ i \in 1..Len(invitations) => invitations[i].status # PENDING

C28_AcceptKeepsExistingRole ==
    [][(/\ last'.route = "acceptInvitation"
        /\ InvitationExists(last'.id)
        /\ RowsOf(invitations[last'.id].email,
                  invitations[last'.id].organizationId) # {}) =>
          memberships' = memberships]_vars

\* a member holding VIEWER accepted a second invitation of the same
\* organization, for ADMIN, and is still VIEWER
C28_Witness ==
    /\ last.route = "acceptInvitation"
    /\ last.status = Ok
    /\ InvitationExists(last.id)
    /\ invitations[last.id].status = ACCEPTED
    /\ invitations[last.id].role = ADMIN
    /\ RolesOf(invitations[last.id].email, invitations[last.id].organizationId)
          = {VIEWER}

GuardRejected(a) ==
    /\ a # NoRequest
    /\ a.stages # <<>>
    /\ ~Admitted(a)
    /\ a.status \in {Unauthorized, NotFound, Forbidden}

\* C30: a request that the guard pipeline rejects (Unauthorized, NotFound or
\* Forbidden) leaves every task, membership and invitation, and every user
\* and organization, exactly as it was.
C30_RejectedWritesNothing ==
    [][GuardRejected(last') =>
          /\ tasks' = tasks
          /\ memberships' = memberships
          /\ invitations' = invitations
          /\ users' = users
          /\ organizations' = organizations]_vars

\* a VIEWER's delete of a live task of their organization was stopped by
\* OrgRolesGuard; the task is still live
C30_Witness ==
    /\ last.route = "deleteTask"
    /\ last.status = Forbidden
    /\ last.stages = <<"JwtAuthGuard", "TaskOrgGuard", "OrgRolesGuard">>
    /\ last.memberRole = VIEWER
    /\ findById(last.id)

====
